---- MODULE Spec2Model ----
(***************************************************************************)
(* MonthlyReportGenerator (src/unnamed/part_002): generate, createFields,  *)
(* getSourceData and writeDataToNewTable, run against a host table store   *)
(* whose calls may fail.                                                   *)
(*                                                                         *)
(* Numbers are fixed-point: an integer n stands for n/1000, and three      *)
(* integers no finite sum of the model reaches stand for Infinity,         *)
(* -Infinity and NaN.  A timestamp is counted in months since 1970-01: 0   *)
(* is a date in January 1970, 13 a date in February 1971.                  *)
(***************************************************************************)
EXTENDS Integers, Sequences, FiniteSets, TLC

VARIABLES
    pc,                   \* position of generate
    sourceTableId,        \* argument of generate
    month,                \* argument of generate
    error,                \* the Error generate rejects with ("" while none)
    calls,                \* host calls made in this run, per kind
    nRecords,             \* recordIdList.length
    records,              \* what the host returned for each record read so far
    groupedData,          \* getSourceData's groupedData, in Object.entries order
    matchedRecordCount,
    processedRecordCount,
    tableCreated,         \* the destination table exists
    newFields,            \* field names of the destination table, in creation order
    rows,                 \* rows of the destination table
    gi,                   \* per-row loop: next entry of Object.entries(groupedData)
    successCount,
    missingFields,        \* the display names field resolution did not find
    fields,               \* the field names the last getFieldMetaList returned
    tableId,              \* id of the table addTable has created in this run (0: none)
    newTable,             \* the table generate works on, by its id (0: none)
    run,                  \* number of this call of generate
    tablesCreated,        \* tables created in the base by all calls so far
    earlierTables,        \* ids of the tables that earlier calls have created
    targets,              \* the host calls of this run on a table or a field, by kind and table
    loading,              \* App's loading state
    shownLoading,         \* the loading the form was rendered with last
    inFlight,             \* generate calls of the form that have not settled
    errorMessage,         \* App's errorMessage state ("" for null)
    newTableName,         \* year and month in the name of the table of this run
    log                   \* console output the claims refer to

vars == <<pc, sourceTableId, month, error, calls, nRecords, records, groupedData,
          matchedRecordCount, processedRecordCount, tableCreated, newFields, rows,
          gi, successCount, missingFields, fields, log, tableId, newTable, run,
          tablesCreated, earlierTables, targets, loading, shownLoading, inFlight,
          errorMessage, newTableName>>

(***************************************************************************)
(* Bounds and input sets                                                   *)
(***************************************************************************)
MaxRecords == 2
\* Calls of generate in a row, and records of the source table in a later call
MaxRuns == 2
MaxRecordsRepeated == 1

TableIds == {"", "tblSource"}
Months == {0, 1, 2, 13}
Timestamps == {0, 1, 13}
Labels == {"A", "1"}

SOURCE_FIELD_NAMES ==
    <<"PRODUCT_CATEGORY", "OUT_DATE", "SHARES", "PREPARATION_FEE",
      "REWARD_DEDUCTION", "CANCEL_FEE", "URGENT_FEE">>

TARGET_FIELD_NAMES ==
    <<"PROJECT", "PERSON_COUNT", "SHARES", "PREPARATION_FEE",
      "REWARD_DEDUCTION", "CANCEL_FEE", "URGENT_FEE">>

\* The five summed fields of an accumulator, in the order the code reads them.
NumFields == <<"shares", "preparationFee", "rewardDeduction", "cancelFee", "urgentFee">>

CallKinds == {"getTableById", "addTable", "addField", "getFieldMetaList", "getField",
              "getRecordIdList", "getValue", "addRecords", "addRecord", "setValue"}

WriteKinds == {"addRecords", "addRecord", "setValue"}

(***************************************************************************)
(* Values the host returns                                                 *)
(***************************************************************************)
NullV == [k |-> "null"]
Throws == [k |-> "throws"]
Unread == [k |-> "unread"]
Ts(t) == [k |-> "ts", ts |-> t]
InvalidDate == [k |-> "invalid"]
Str(s) == [k |-> "str", text |-> s]
Obj(s) == [k |-> "obj", text |-> s]
Num(n) == [k |-> "num", n |-> n]
NonNumeric == [k |-> "nan"]
\* A value Number() turns into Infinity or -Infinity: "Infinity", "-1e999", ...
Infinite(sign) == [k |-> "inf", sign |-> sign]

DateReads == {NullV, Throws, InvalidDate} \cup {Ts(t) : t \in Timestamps}
CategoryReads == {NullV, Throws, Str("")} \cup {Str(l) : l \in Labels}
                     \cup {Obj(l) : l \in Labels}
NumberReads ==
    { <<Num(1500), Num(10001), Num(-3), Num(12345), Infinite(1)>>,
      <<NullV, NonNumeric, Throws, Num(-12345), Infinite(-1)>> }
NotRead == <<Unread, Unread, Unread, Unread, Unread>>

SourceFieldLists ==
    { SOURCE_FIELD_NAMES,
      <<>>,
      <<"OUT_DATE", "PRODUCT_CATEGORY", "SHARES", "PREPARATION_FEE",
        "CANCEL_FEE", "URGENT_FEE">>,
      <<"SHARES", "OTHER">> }

(***************************************************************************)
(* Helpers                                                                 *)
(***************************************************************************)
Range(s) == {s[i] : i \in 1..Len(s)}

Bump(c, kind, n) == [c EXCEPT ![kind] = @ + n]

\* Mutant: only the first name that is not found is reported.
MissingFieldsFirstOnly(metaList, names) ==
    SubSeq(SelectSeq(names, LAMBDA nm : nm \notin Range(metaList)), 1, 1)

\* fields.find(field => field.name === name)?.id is undefined
MissingFields(metaList, names) ==
    SelectSeq(names, LAMBDA nm : nm \notin Range(metaList))

\* A failure that does not stop the run
FailSwallowed(msg) ==
    /\ pc' = "Done"
    /\ error' = msg

\* Mutant: the catch of generate removes the table the run has created.
AfterCatchRollback(created) == FALSE

\* The destination table after the catch of generate (lines 102-109), which
\* logs the error and throws it again: the table is there if it was created
AfterCatch(created) == created

\* throw new Error(msg): generate rejects (lines 102-109) and nothing of it
\* runs afterwards
Fail(msg) ==
    /\ pc' = "Errored"
    /\ error' = msg
(***************************************************************************)
(* getSourceData: the per-record logic (lines 247-337)                     *)
(***************************************************************************)
\* !outDateValue (line 253): null, undefined and the number 0 are falsy
DateFalsy(d) == d.k = "null" \/ (d.k = "ts" /\ d.ts = 0)

\* isNaN(new Date(outDateValue).getTime()) (lines 258-264)
IsInvalidDate(d) == d.k = "invalid"

\* outDate.getFullYear()
YearOf(d) == 1970 + (d.ts \div 12)

\* currentDate.getFullYear() (lines 62-63): the year in which generate runs
CurrentYear == 1971

\* Mutant: only a date of the current year has a month that can match.
GetMonthOfCurrentYear(d) == IF YearOf(d) = CurrentYear THEN (d.ts % 12) + 1 ELSE 0

\* outDate.getMonth() + 1 (line 270): the year is dropped
GetMonth(d) == (d.ts % 12) + 1

\* `${year}年${monthStr}月...` (lines 61-64)
NoName == [year |-> 0, month |-> 0]
NewTableName(year, m) == [year |-> year, month |-> m]

\* The record gets as far as reading its category (lines 250-278).
ReachesCategory(r, m) ==
    /\ r.date.k # "throws"
    /\ ~DateFalsy(r.date)
    /\ ~IsInvalidDate(r.date)
    /\ GetMonth(r.date) = m

\* Mutant: only an absent category is skipped.
CategoryFalsyNullOnly(c) == c.k = "null"

\* !productCategory (line 281): null, undefined and "" are falsy, an object is not
CategoryFalsy(c) == c.k = "null" \/ (c.k = "str" /\ c.text = "")

\* The record gets as far as the accumulation (lines 287-332).
Contributes(r, m) ==
    /\ ReachesCategory(r, m)
    /\ r.cat.k # "throws"
    /\ ~CategoryFalsy(r.cat)

\* String(productCategory) (line 287)
StringOf(c) == IF c.k = "str" THEN c.text ELSE "[object Object]"

\* The numbers that are not finite
PlusInfinity == 1000000000
MinusInfinity == -1000000000
NaN == 2000000000

IsFiniteNumber(x) == x \notin {PlusInfinity, MinusInfinity, NaN}

\* a + b on numbers
Plus(a, b) ==
    IF a = NaN \/ b = NaN THEN NaN
    ELSE IF IsFiniteNumber(a) /\ IsFiniteNumber(b) THEN a + b
    ELSE IF IsFiniteNumber(a) THEN b
    ELSE IF IsFiniteNumber(b) \/ a = b THEN a
    ELSE NaN

\* Number(value) (line 309)
NumberOf(v) ==
    CASE v.k = "num" -> v.n
      [] v.k = "inf" -> IF v.sign > 0 THEN PlusInfinity ELSE MinusInfinity
      [] OTHER -> NaN

\* safeGetNumberValue (lines 305-315): 0 for a read that throws, for null and
\* undefined and for a value Number() turns into NaN
safeGetNumberValue(v) ==
    IF v.k \in {"throws", "null"} THEN 0
    ELSE IF NumberOf(v) = NaN THEN 0 ELSE NumberOf(v)

\* The value of a key that is a canonical array index, -1 for any other key:
\* an object lists its array-index keys first, in ascending order.
ArrayIndex(key) ==
    CASE key = "0" -> 0
      [] key = "1" -> 1
      [] key = "2" -> 2
      [] OTHER -> -1

HasKey(gd, key) == \E i \in 1..Len(gd) : gd[i].key = key

\* lines 291-298
NewAccumulator(key) ==
    [key |-> key, count |-> 0, shares |-> 0, preparationFee |-> 0,
     rewardDeduction |-> 0, cancelFee |-> 0, urgentFee |-> 0]

\* groupedData[categoryKey] = {...} on a key the object does not hold yet
InsertKey(gd, a) ==
    IF ArrayIndex(a.key) >= 0
    THEN LET Before(e) == ArrayIndex(e.key) >= 0 /\ ArrayIndex(e.key) < ArrayIndex(a.key)
             NotBefore(e) == ~Before(e)
         IN SelectSeq(gd, Before) \o <<a>> \o SelectSeq(gd, NotBefore)
    ELSE Append(gd, a)

\* lines 302-330
AddToGroup(a, r) ==
    [a EXCEPT !.count = @ + 1,
              !.shares = Plus(@, safeGetNumberValue(r.nums[1])),
              !.preparationFee = Plus(@, safeGetNumberValue(r.nums[2])),
              !.rewardDeduction = Plus(@, safeGetNumberValue(r.nums[3])),
              !.cancelFee = Plus(@, safeGetNumberValue(r.nums[4])),
              !.urgentFee = Plus(@, safeGetNumberValue(r.nums[5]))]

\* One iteration of the loop on groupedData (lines 248-336).
Accumulate(gd, r, m) ==
    IF ~Contributes(r, m)
    THEN gd
    ELSE LET key == StringOf(r.cat)
             gd1 == IF HasKey(gd, key) THEN gd ELSE InsertKey(gd, NewAccumulator(key))
         IN [i \in 1..Len(gd1) |->
                IF gd1[i].key = key THEN AddToGroup(gd1[i], r) ELSE gd1[i]]

\* The out-date cell holds a date of calendar month m.
InRequestedMonth(r, m) == r.date.k = "ts" /\ GetMonth(r.date) = m

\* The category cell holds a non-empty label.
HasLabel(r) == r.cat.k \in {"str", "obj"} /\ r.cat.text # ""

\* What the host returns for the cells of one record.  The cells of a record that
\* is not of month m are left open (Unread): the run never looks at them.
SourceRecords(m) ==
    { r \in [date : DateReads,
             cat : CategoryReads \cup {Unread},
             nums : NumberReads \cup {NotRead}] :
        /\ (r.cat = Unread) <=> ~InRequestedMonth(r, m)
        /\ (r.nums = NotRead) <=> ~(InRequestedMonth(r, m) /\ HasLabel(r)) }

\* Mutant: the catch is around the loop, so a read that throws ends it.
RecordAbortsOnThrow(r) == r.date.k = "throws" \/ r.cat.k = "throws"

\* The catch of lines 333-336 is inside the loop: no record ends the loop early.
RecordAborts(r) == FALSE

\* getValue calls one iteration makes
ReadsOf(r, m) ==
    1 + (IF ReachesCategory(r, m) THEN 1 ELSE 0) + (IF Contributes(r, m) THEN 5 ELSE 0)

(***************************************************************************)
(* generate, up to the aggregation                                         *)
(***************************************************************************)
Init ==
    /\ pc = "Idle"
    /\ sourceTableId = ""
    /\ month = 0
    /\ error = ""
    /\ calls = [c \in CallKinds |-> 0]
    /\ nRecords = 0
    /\ records = <<>>
    /\ groupedData = <<>>
    /\ matchedRecordCount = 0
    /\ processedRecordCount = 0
    /\ tableCreated = FALSE
    /\ newFields = <<>>
    /\ rows = <<>>
    /\ gi = 0
    /\ successCount = 0
    /\ missingFields = <<>>
    /\ fields = <<>>
    /\ log = {}
    /\ tableId = 0
    /\ newTable = 0
    /\ run = 1
    /\ tablesCreated = 0
    /\ earlierTables = {}
    /\ targets = {}
    /\ loading = FALSE
    /\ shownLoading = FALSE
    /\ inFlight = 0
    /\ errorMessage = ""
    /\ newTableName = NoName

\* The table of line 55 and the table of line 79
SourceTableRef == [table |-> "source", id |-> 0]
NewTableRef == [table |-> "new", id |-> newTable]

\* Mutant: createFields is handed the source table.
CreateFieldsOnSource == SourceTableRef

\* The tables generate hands to createFields (line 86), to getSourceData
\* (line 90) and to writeDataToNewTable (line 99)
CreateFieldsTable == NewTableRef
GetSourceDataTable == SourceTableRef
WriteTable == NewTableRef

\* Calls of these kinds were made on table t or on a field of it
Touch(t, kinds) == targets \cup {[kind |-> k, table |-> t] : k \in kinds}

\* Mutant: the lower bound of the month check is off by one.
PreconditionErrorMonthZero(id, m) ==
    IF id = "" THEN "EmptySourceTableId"
    ELSE IF m < 0 \/ m > 12 THEN "MonthOutOfRange"
    ELSE ""

\* lines 45-51: the Error thrown before the try block, "" when there is none
PreconditionError(id, m) ==
    IF id = "" THEN "EmptySourceTableId"
    ELSE IF m < 1 \/ m > 12 THEN "MonthOutOfRange"
    ELSE ""

\* generate(id, m) up to its first await (lines 44-55)
GenerateCall(id, m) ==
    /\ sourceTableId' = id
    /\ month' = m
    /\ IF PreconditionError(id, m) # ""
       THEN Fail(PreconditionError(id, m))
       ELSE pc' = "ResolvingSourceTable" /\ error' = ""

\* lines 44-53
Generate ==
    /\ pc = "Idle"
    /\ \E id \in TableIds, m \in Months :
        /\ run > 1 => id = sourceTableId /\ m = month
        /\ GenerateCall(id, m)
    /\ UNCHANGED <<calls, nRecords, records, groupedData, matchedRecordCount,
                   processedRecordCount, tableCreated, newFields, rows, gi,
                   successCount, missingFields, fields, log,
                   run, earlierTables, tablesCreated, tableId, newTable, targets,
                   loading, shownLoading, inFlight, errorMessage, newTableName>>

\* lines 55-58
GetSourceTable ==
    /\ pc = "ResolvingSourceTable"
    /\ calls' = Bump(calls, "getTableById", 1)
    /\ \E outcome \in {"table", "null", "throws"} :
        CASE outcome = "table" -> pc' = "CreatingReport" /\ error' = error
          [] outcome = "null" -> Fail("SourceTableNotFound")
          [] outcome = "throws" -> Fail("HostError")
    /\ tableCreated' = IF pc' = "Errored" THEN AfterCatch(tableCreated)
                                          ELSE tableCreated
    /\ UNCHANGED <<sourceTableId, month, nRecords, records, groupedData,
                   matchedRecordCount, processedRecordCount, newFields,
                   rows, gi, successCount, missingFields, fields, log,
                   run, earlierTables, tablesCreated, tableId, newTable, targets,
                   loading, shownLoading, inFlight, errorMessage, newTableName>>

\* Mutant: addTable hands out the id of the first table of the base again.
AddedTableIdReused(n) == 1

\* base.addTable creates a table and returns its id (lines 66-71): the table
\* is a new one, numbered after the n tables created before
AddedTableId(n) == n + 1

\* lines 61-76
AddTable ==
    /\ pc = "CreatingReport"
    /\ calls' = Bump(calls, "addTable", 1)
    /\ \E outcome \in {"created", "noTableId", "throws"} :
        CASE outcome = "created" ->
                /\ pc' = "GettingNewTable" /\ error' = error /\ tableCreated' = TRUE
                /\ tableId' = AddedTableId(tablesCreated)
                /\ newTableName' = NewTableName(CurrentYear, month)
                /\ tablesCreated' = tablesCreated + 1
          [] outcome = "noTableId" ->
                /\ Fail("CreateTableFailed") /\ tableCreated' = AfterCatch(tableCreated)
                /\ UNCHANGED <<tableId, tablesCreated, newTableName>>
          [] outcome = "throws" ->
                /\ Fail("HostError") /\ tableCreated' = AfterCatch(tableCreated)
                /\ UNCHANGED <<tableId, tablesCreated, newTableName>>
    /\ UNCHANGED <<sourceTableId, month, nRecords, records, groupedData,
                   matchedRecordCount, processedRecordCount, newFields,
                   rows, gi, successCount, missingFields, fields, log,
                   run, earlierTables, newTable, targets,
                   loading, shownLoading, inFlight, errorMessage>>

\* lines 79-82
GetNewTable ==
    /\ pc = "GettingNewTable"
    /\ calls' = Bump(calls, "getTableById", 1)
    /\ \E outcome \in {"table", "null", "throws"} :
        CASE outcome = "table" ->
                pc' = "DefiningFields" /\ error' = error /\ newTable' = tableId
          [] outcome = "null" ->
                Fail("NewTableNotAccessible") /\ newTable' = newTable
          [] outcome = "throws" ->
                Fail("HostError") /\ newTable' = newTable
    /\ tableCreated' = IF pc' = "Errored" THEN AfterCatch(tableCreated)
                                          ELSE tableCreated
    /\ UNCHANGED <<sourceTableId, month, nRecords, records, groupedData,
                   matchedRecordCount, processedRecordCount, newFields,
                   rows, gi, successCount, missingFields, fields, log,
                   run, earlierTables, tablesCreated, tableId, targets,
                   loading, shownLoading, inFlight, errorMessage, newTableName>>

\* Mutant: the second and the third field are added in the other order.
FieldToAddSwapped(n) ==
    TARGET_FIELD_NAMES[IF n = 2 THEN 3 ELSE IF n = 3 THEN 2 ELSE n]

\* The field the n-th addField call of createFields adds (lines 118-174)
FieldToAdd(n) == TARGET_FIELD_NAMES[n]

\* createFields, one addField call (lines 115-180)
AddField ==
    /\ pc = "DefiningFields"
    /\ calls' = Bump(calls, "addField", 1)
    /\ \E ok \in BOOLEAN :
        IF ok
        THEN /\ newFields' = Append(newFields, FieldToAdd(Len(newFields) + 1))
             /\ pc' = IF Len(newFields) + 1 = Len(TARGET_FIELD_NAMES)
                      THEN "SourceFieldMeta" ELSE "DefiningFields"
             /\ error' = error
        ELSE /\ Fail("CreateFieldsFailed")
             /\ newFields' = newFields
    /\ tableCreated' = IF pc' = "Errored" THEN AfterCatch(tableCreated)
                                          ELSE tableCreated
    /\ targets' = Touch(CreateFieldsTable, {"addField"})
    /\ UNCHANGED <<sourceTableId, month, nRecords, records, groupedData,
                   matchedRecordCount, processedRecordCount, rows, gi, successCount, missingFields, fields, log,
                   run, earlierTables, tablesCreated, tableId, newTable,
                   loading, shownLoading, inFlight, errorMessage, newTableName>>

\* getSourceData, lines 188-214
SourceFieldMeta ==
    /\ pc = "SourceFieldMeta"
    /\ calls' = Bump(calls, "getFieldMetaList", 1)
    /\ \/ Fail("HostError") /\ missingFields' = missingFields /\ fields' = fields
       \/ \E metaList \in SourceFieldLists :
            LET missing == MissingFields(metaList, SOURCE_FIELD_NAMES) IN
            /\ fields' = metaList
            /\ IF Len(metaList) = 0
               THEN Fail("NoSourceFields") /\ missingFields' = missingFields
               ELSE IF Len(missing) > 0
               THEN Fail("MissingSourceFields") /\ missingFields' = missing
               ELSE pc' = "SourceGetFields" /\ error' = error
                    /\ missingFields' = missingFields
    /\ tableCreated' = IF pc' = "Errored" THEN AfterCatch(tableCreated)
                                          ELSE tableCreated
    /\ targets' = Touch(GetSourceDataTable, {"getFieldMetaList"})
    /\ UNCHANGED <<sourceTableId, month, nRecords, records, groupedData,
                   matchedRecordCount, processedRecordCount, newFields,
                   rows, gi, successCount, log,
                   run, earlierTables, tablesCreated, tableId, newTable,
                   loading, shownLoading, inFlight, errorMessage, newTableName>>

\* getSourceData, lines 217-223: seven getField calls, the first failure throws
SourceGetFields ==
    /\ pc = "SourceGetFields"
    /\ \E made \in 1..7, ok \in BOOLEAN :
        /\ ok => made = 7
        /\ calls' = Bump(calls, "getField", made)
        /\ IF ok THEN pc' = "SourceRecordIds" /\ error' = error
           ELSE Fail("HostError")
    /\ tableCreated' = IF pc' = "Errored" THEN AfterCatch(tableCreated)
                                          ELSE tableCreated
    /\ targets' = Touch(GetSourceDataTable, {"getField"})
    /\ UNCHANGED <<sourceTableId, month, nRecords, records, groupedData,
                   matchedRecordCount, processedRecordCount, newFields,
                   rows, gi, successCount, missingFields, fields, log,
                   run, earlierTables, tablesCreated, tableId, newTable,
                   loading, shownLoading, inFlight, errorMessage, newTableName>>

\* The longest record list of this call
RecordLimit == IF run = 1 /\ inFlight = 0 THEN MaxRecords ELSE MaxRecordsRepeated

\* getSourceData, lines 226-231
GetRecordIdList ==
    /\ pc = "SourceRecordIds"
    /\ calls' = Bump(calls, "getRecordIdList", 1)
    /\ \/ Fail("HostError") /\ nRecords' = nRecords
       \/ \E n \in 0..RecordLimit :
            IF n = 0
            THEN Fail("NoSourceRecords") /\ nRecords' = nRecords
            ELSE pc' = "Aggregating" /\ error' = error /\ nRecords' = n
    /\ tableCreated' = IF pc' = "Errored" THEN AfterCatch(tableCreated)
                                          ELSE tableCreated
    /\ targets' = Touch(GetSourceDataTable, {"getRecordIdList"})
    /\ UNCHANGED <<sourceTableId, month, records, groupedData,
                   matchedRecordCount, processedRecordCount, newFields,
                   rows, gi, successCount, missingFields, fields, log,
                   run, earlierTables, tablesCreated, tableId, newTable,
                   loading, shownLoading, inFlight, errorMessage, newTableName>>

\* getSourceData, one iteration of the loop over recordIdList (lines 247-337)
ProcessRecord ==
    /\ pc = "Aggregating"
    /\ Len(records) < nRecords
    /\ \E r \in SourceRecords(month) :
        /\ records' = Append(records, r)
        /\ calls' = Bump(calls, "getValue", ReadsOf(r, month))
        /\ groupedData' = Accumulate(groupedData, r, month)
        /\ matchedRecordCount' =
               matchedRecordCount + (IF ReachesCategory(r, month) THEN 1 ELSE 0)
        /\ processedRecordCount' =
               processedRecordCount + (IF Contributes(r, month) THEN 1 ELSE 0)
        /\ IF RecordAborts(r) THEN Fail("HostError")
           ELSE pc' = pc /\ error' = error
    /\ tableCreated' = IF pc' = "Errored" THEN AfterCatch(tableCreated)
                                          ELSE tableCreated
    /\ targets' = Touch(GetSourceDataTable, {"getValue"})
    /\ UNCHANGED <<sourceTableId, month, nRecords, newFields,
                   rows, gi, successCount, missingFields, fields, log,
                   run, earlierTables, tablesCreated, tableId, newTable,
                   loading, shownLoading, inFlight, errorMessage, newTableName>>

\* Mutant: generate does not check for an empty result.
NoDataUnchecked(gd) == FALSE

\* Object.keys(sourceData).length === 0 (line 93)
NoData(gd) == Len(gd) = 0

\* getSourceData returns (lines 339-341); generate, lines 93-97
ReturnSourceData ==
    /\ pc = "Aggregating"
    /\ Len(records) = nRecords
    /\ IF NoData(groupedData)
       THEN Fail("NoDataForMonth")
       ELSE pc' = "TargetFieldMeta" /\ error' = error
    /\ tableCreated' = IF pc' = "Errored" THEN AfterCatch(tableCreated)
                                          ELSE tableCreated
    /\ UNCHANGED <<sourceTableId, month, calls, nRecords, records, groupedData,
                   matchedRecordCount, processedRecordCount, newFields,
                   rows, gi, successCount, missingFields, fields, log,
                   run, earlierTables, tablesCreated, tableId, newTable, targets,
                   loading, shownLoading, inFlight, errorMessage, newTableName>>

(***************************************************************************)
(* writeDataToNewTable (lines 355-478)                                     *)
(***************************************************************************)
Unset == [k |-> "unset"]
TextCell(s) == [k |-> "text", text |-> s]
\* negZero: the number is IEEE -0
NumberCell(n, negZero) == [k |-> "number", n |-> n, negZero |-> negZero]

\* Math.round(x * 100) / 100 (lines 443-455): Math.round rounds a half up,
\* yields -0 for -0.5 <= y < 0 and leaves Infinity, -Infinity and NaN as they are
Round2(x) ==
    IF ~IsFiniteNumber(x) THEN NumberCell(x, FALSE)
    ELSE LET q == (x + 5) \div 10
         IN NumberCell(10 * q, q = 0 /\ x < 0)

\* The record of one group in the bulk call (lines 406-416)
BulkRecord(a) ==
    << TextCell(a.key), NumberCell(a.count, FALSE),
       NumberCell(a.shares, FALSE), NumberCell(a.preparationFee, FALSE),
       NumberCell(a.rewardDeduction, FALSE), NumberCell(a.cancelFee, FALSE),
       NumberCell(a.urgentFee, FALSE) >>

\* The seven values the per-row path sets, in the order it sets them (lines 437-455)
RowValues(a) ==
    << TextCell(a.key), NumberCell(a.count, FALSE),
       Round2(a.shares), Round2(a.preparationFee),
       Round2(a.rewardDeduction), Round2(a.cancelFee),
       Round2(a.urgentFee) >>

\* The row after the first n setValue calls
PartialRow(a, n) == [i \in 1..7 |-> IF i <= n THEN RowValues(a)[i] ELSE Unset]

\* Object.entries(groupedData).map(...) (lines 399-417)
BulkRecords(gd) == [i \in 1..Len(gd) |-> BulkRecord(gd[i])]

\* Where an iteration of the per-row loop can fail: at addRecord (0), at the
\* first or the third setValue, or nowhere (8).
FailPoints == {0, 1, 3, 8}

\* What getFieldMetaList can return for the destination table
TargetFieldLists == {newFields, <<>>, SubSeq(newFields, 1, 5)}

\* lines 358-384
TargetFieldMeta ==
    /\ pc = "TargetFieldMeta"
    /\ calls' = Bump(calls, "getFieldMetaList", 1)
    /\ \/ Fail("HostError") /\ missingFields' = missingFields /\ fields' = fields
       \/ \E metaList \in TargetFieldLists :
            LET missing == MissingFields(metaList, TARGET_FIELD_NAMES) IN
            /\ fields' = metaList
            /\ IF Len(metaList) = 0
               THEN Fail("NoTargetFields") /\ missingFields' = missingFields
               ELSE IF Len(missing) > 0
               THEN Fail("MissingTargetFields") /\ missingFields' = missing
               ELSE pc' = "TargetGetFields" /\ error' = error
                    /\ missingFields' = missingFields
    /\ tableCreated' = IF pc' = "Errored" THEN AfterCatch(tableCreated)
                                          ELSE tableCreated
    /\ targets' = Touch(WriteTable, {"getFieldMetaList"})
    /\ UNCHANGED <<sourceTableId, month, nRecords, records, groupedData,
                   matchedRecordCount, processedRecordCount, newFields,
                   rows, gi, successCount, log,
                   run, earlierTables, tablesCreated, tableId, newTable,
                   loading, shownLoading, inFlight, errorMessage, newTableName>>

\* lines 387-393: seven getField calls, the first failure throws
TargetGetFields ==
    /\ pc = "TargetGetFields"
    /\ \E made \in 1..7, ok \in BOOLEAN :
        /\ ok => made = 7
        /\ calls' = Bump(calls, "getField", made)
        /\ IF ok THEN pc' = "BulkInsert" /\ error' = error
           ELSE Fail("HostError")
    /\ tableCreated' = IF pc' = "Errored" THEN AfterCatch(tableCreated)
                                          ELSE tableCreated
    /\ targets' = Touch(WriteTable, {"getField"})
    /\ UNCHANGED <<sourceTableId, month, nRecords, records, groupedData,
                   matchedRecordCount, processedRecordCount, newFields,
                   rows, gi, successCount, missingFields, fields, log,
                   run, earlierTables, tablesCreated, tableId, newTable,
                   loading, shownLoading, inFlight, errorMessage, newTableName>>

\* lines 397-427.  A call that throws may have stored none, some or all of its
\* records in the table before it failed.
BulkInsert ==
    /\ pc = "BulkInsert"
    /\ LET recs == BulkRecords(groupedData) IN
       IF Len(recs) > 0
       THEN /\ calls' = Bump(calls, "addRecords", 1)
            /\ \/ /\ rows' = rows \o recs
                  /\ log' = log \cup {[k |-> "bulkAdded", n |-> Len(recs)]}
                  /\ pc' = "Done"
                  /\ gi' = gi
               \/ \E stored \in 0..Len(recs) :
                  /\ rows' = rows \o SubSeq(recs, 1, stored)
                  /\ log' = log \cup {[k |-> "bulkFailed"]}
                  /\ pc' = "PerRow"
                  /\ gi' = 1
       ELSE /\ pc' = "PerRow"
            /\ gi' = 1
            /\ UNCHANGED <<calls, rows, log>>
    /\ targets' = Touch(WriteTable, IF Len(BulkRecords(groupedData)) > 0
                                    THEN {"addRecords"} ELSE {})
    /\ UNCHANGED <<sourceTableId, month, error, nRecords, records, groupedData,
                   matchedRecordCount, processedRecordCount, tableCreated, newFields,
                   successCount, missingFields, fields,
                   run, earlierTables, tablesCreated, tableId, newTable,
                   loading, shownLoading, inFlight, errorMessage, newTableName>>

\* Mutant: the catch swallows the error without logging it.
RowErrorLogSilent(a, failAt) == {}

\* The catch of lines 458-460 logs the group and lets the loop go on.
RowErrorLog(a, failAt) ==
    IF failAt = 8 THEN {} ELSE {[k |-> "addRecordError", key |-> a.key]}

\* Mutant: the first failing group ends the loop.
NextEntryStopOnError(i, failAt) == IF failAt = 8 THEN i + 1 ELSE Len(groupedData) + 1

\* The loop of line 431 moves to the next entry whatever the iteration did.
NextEntry(i, failAt) == i + 1

\* Mutant: the zero-success check is missing.
NothingWrittenUnchecked(n) == FALSE

\* successCount === 0 (line 465)
NothingWritten(n) == n = 0

\* One iteration of the per-row loop (lines 431-461).  failAt = 0: addRecord
\* throws; failAt = n in 1..7: the n-th setValue throws; failAt = 8: nothing throws.
WriteRow ==
    /\ pc = "PerRow"
    /\ gi <= Len(groupedData)
    /\ \E failAt \in FailPoints :
        LET a == groupedData[gi] IN
        /\ calls' = [calls EXCEPT !["addRecord"] = @ + 1,
                                  !["setValue"] = @ + (IF failAt > 7 THEN 7 ELSE failAt)]
        /\ rows' = IF failAt = 0 THEN rows
                   ELSE Append(rows, PartialRow(a, failAt - 1))
        /\ successCount' = IF failAt = 8 THEN successCount + 1 ELSE successCount
        /\ log' = log \cup RowErrorLog(a, failAt)
        /\ gi' = NextEntry(gi, failAt)
    /\ targets' = Touch(WriteTable, {k \in {"addRecord", "setValue"} : calls'[k] > calls[k]})
    /\ UNCHANGED <<pc, sourceTableId, month, error, nRecords, records, groupedData,
                   matchedRecordCount, processedRecordCount, tableCreated, newFields,
                   missingFields, fields,
                   run, earlierTables, tablesCreated, tableId, newTable,
                   loading, shownLoading, inFlight, errorMessage, newTableName>>

\* lines 463-469
FinishWrite ==
    /\ pc = "PerRow"
    /\ gi > Len(groupedData)
    /\ LET total == Len(groupedData)
           summary == [k |-> "added", n |-> successCount, total |-> total]
       IN
       IF NothingWritten(successCount)
       THEN /\ Fail("NoRecordWritten")
            /\ log' = log \cup {summary}
       ELSE /\ pc' = "Done"
            /\ error' = error
            /\ log' = log \cup {summary} \cup
                        (IF successCount < total
                         THEN {[k |-> "partialWarning", n |-> successCount, total |-> total]}
                         ELSE {})
    /\ tableCreated' = IF pc' = "Errored" THEN AfterCatch(tableCreated)
                                          ELSE tableCreated
    /\ UNCHANGED <<sourceTableId, month, calls, nRecords, records, groupedData,
                   matchedRecordCount, processedRecordCount, newFields,
                   rows, gi, successCount, missingFields, fields,
                   run, earlierTables, tablesCreated, tableId, newTable, targets,
                   loading, shownLoading, inFlight, errorMessage, newTableName>>

Next ==
    \/ Generate
    \/ GetSourceTable
    \/ AddTable
    \/ GetNewTable
    \/ AddField
    \/ SourceFieldMeta
    \/ SourceGetFields
    \/ GetRecordIdList
    \/ ProcessRecord
    \/ ReturnSourceData
    \/ TargetFieldMeta
    \/ TargetGetFields
    \/ BulkInsert
    \/ WriteRow
    \/ FinishWrite

Spec == Init /\ [][Next]_vars

\* A call of generate starts from fresh locals
FreshLocals ==
    /\ calls' = [c \in CallKinds |-> 0]
    /\ nRecords' = 0
    /\ records' = <<>>
    /\ groupedData' = <<>>
    /\ matchedRecordCount' = 0
    /\ processedRecordCount' = 0
    /\ tableCreated' = FALSE
    /\ newFields' = <<>>
    /\ rows' = <<>>
    /\ gi' = 0
    /\ successCount' = 0
    /\ missingFields' = <<>>
    /\ fields' = <<>>
    /\ log' = {}
    /\ tableId' = 0
    /\ newTable' = 0
    /\ targets' = {}
    /\ newTableName' = NoName

\* generate is called again with the same arguments once the call before has
\* ended; it starts from fresh locals in the base the earlier calls have left
NewRun ==
    /\ pc \in {"Done", "Errored"}
    /\ run < MaxRuns
    /\ run' = run + 1
    /\ earlierTables' = earlierTables \cup (IF tableCreated THEN {tableId} ELSE {})
    /\ pc' = "Idle"
    /\ error' = ""
    /\ FreshLocals
    /\ UNCHANGED <<sourceTableId, month, tablesCreated,
                   loading, shownLoading, inFlight, errorMessage>>

NextRepeated == Next \/ NewRun

SpecRepeated == Init /\ [][NextRepeated]_vars

\* Every host call generate awaits settles, so the continuation after it runs
SpecFair == Spec /\ WF_vars(Next)

(***************************************************************************)
(* App: the form that calls generate (src/src/App.tsx)                     *)
(***************************************************************************)
\* The months of MONTH_OPTIONS among the months of the model (lines 23-26)
SelectableMonths == {m \in Months : 1 <= m /\ m <= 12}

\* Mutant: the button is disabled only while no table is selected.
ButtonDisabledNoTableOnly(id, isLoading) == id = ""

\* disabled={!selectedTableId || loading} (line 160)
ButtonDisabled(id, isLoading) == id = "" \/ isLoading

\* A click on the button: generateReport up to its await (lines 78-93).  The
\* click is taken by the button as it was rendered last; the state set in the
\* handler is rendered before the next click is handled.
Click ==
    /\ pc = "Idle" \/ run < MaxRuns
    /\ \E id \in TableIds, m \in SelectableMonths :
        /\ ~ButtonDisabled(id, shownLoading)
        /\ IF id = ""
           THEN UNCHANGED vars
           ELSE /\ loading' = TRUE
                /\ shownLoading' = TRUE
                /\ errorMessage' = ""
                /\ inFlight' = inFlight + 1
                /\ run' = IF pc = "Idle" THEN run ELSE run + 1
                /\ earlierTables' =
                       earlierTables \cup (IF tableCreated THEN {tableId} ELSE {})
                /\ FreshLocals
                /\ GenerateCall(id, m)
                /\ UNCHANGED tablesCreated

\* generate has settled: generateReport after its await (lines 94-103)
Settle ==
    /\ pc \in {"Done", "Errored"}
    /\ inFlight > 0
    /\ inFlight' = inFlight - 1
    /\ errorMessage' = IF pc = "Errored" THEN error ELSE errorMessage
    /\ loading' = FALSE
    /\ UNCHANGED <<pc, sourceTableId, month, error, calls, nRecords, records,
                   groupedData, matchedRecordCount, processedRecordCount,
                   tableCreated, newFields, rows, gi, successCount, missingFields,
                   fields, log, tableId, newTable, run, tablesCreated, earlierTables,
                   targets, shownLoading, newTableName>>

\* The form is rendered again with the state set outside a click
Render ==
    /\ shownLoading # loading
    /\ shownLoading' = loading
    /\ UNCHANGED <<pc, sourceTableId, month, error, calls, nRecords, records,
                   groupedData, matchedRecordCount, processedRecordCount,
                   tableCreated, newFields, rows, gi, successCount, missingFields,
                   fields, log, tableId, newTable, run, tablesCreated, earlierTables,
                   targets, loading, inFlight, errorMessage, newTableName>>

NextForm ==
    \/ Click
    \/ Settle
    \/ Render
    \/ GetSourceTable
    \/ AddTable
    \/ GetNewTable
    \/ AddField
    \/ SourceFieldMeta
    \/ SourceGetFields
    \/ GetRecordIdList
    \/ ProcessRecord
    \/ ReturnSourceData
    \/ TargetFieldMeta
    \/ TargetGetFields
    \/ BulkInsert
    \/ WriteRow
    \/ FinishWrite

\* Every awaited call settles and every state change is rendered
SpecForm == Init /\ [][NextForm]_vars /\ WF_vars(NextForm)

(***************************************************************************)
(* Properties                                                              *)
(***************************************************************************)
RECURSIVE SumSeq(_)
SumSeq(s) == IF Len(s) = 0 THEN 0 ELSE Plus(Head(s), SumSeq(Tail(s)))

Keys(gd) == {gd[i].key : i \in 1..Len(gd)}
Group(gd, key) == gd[CHOOSE i \in 1..Len(gd) : gd[i].key = key]

\* The records read so far that hold a date of the requested month and label L
\* (a cell whose read throws holds no value).
RecordsOf(L) ==
    {i \in 1..Len(records) :
        /\ InRequestedMonth(records[i], month)
        /\ HasLabel(records[i])
        /\ records[i].cat.text = L}

\* The sum, over the records of label L, of the normalized value of numeric cell j
LabelSum(L, j) ==
    SumSeq([i \in 1..Len(records) |->
               IF i \in RecordsOf(L) THEN safeGetNumberValue(records[i].nums[j]) ELSE 0])

AllLabels == Labels \cup Keys(groupedData)

\* C1 (as stated): after any number of records, groupedData holds exactly the
\* labels of the records of the requested month, each with the count of its
\* records and the five sums of their normalized values.
C1_GroupsAreLabelTotals ==
    \A L \in AllLabels :
        /\ HasKey(groupedData, L) <=> RecordsOf(L) # {}
        /\ HasKey(groupedData, L) =>
             LET a == Group(groupedData, L) IN
             /\ a.count = Cardinality(RecordsOf(L))
             /\ \A j \in 1..5 : a[NumFields[j]] = LabelSum(L, j)

\* The records read so far with a date of the requested month and a non-empty
\* category
MatchingRecords ==
    {i \in 1..Len(records) :
        InRequestedMonth(records[i], month) /\ HasLabel(records[i])}

CountTotal(gd) == SumSeq([i \in 1..Len(gd) |-> gd[i].count])

\* C2 (as stated): the counts of all groups sum to the number k of records that
\* have an out-date in the requested month and a non-empty category.
C2_CountsSumToMatching ==
    CountTotal(groupedData) = Cardinality(MatchingRecords)

NoHostCall == \A c \in CallKinds : calls[c] = 0

\* C3: a run with an empty source table id or a month outside 1..12 is in the
\* failed state as soon as it has started, with a precondition error, and has
\* made no host call and created no table.
C3_PreconditionFailsBeforeAnyCall ==
    (pc # "Idle" /\ (sourceTableId = "" \/ month < 1 \/ month > 12)) =>
        /\ pc = "Errored"
        /\ error \in {"EmptySourceTableId", "MonthOutOfRange"}
        /\ NoHostCall
        /\ ~tableCreated
        /\ rows = <<>>

C3_Witness ==
    /\ pc = "Errored"
    /\ sourceTableId # ""
    /\ month = 13
    /\ error = "MonthOutOfRange"

WriterPositions == {"TargetFieldMeta", "TargetGetFields", "BulkInsert", "PerRow", "Done"}

NoWriteCall == \A c \in WriteKinds : calls[c] = 0

\* C4: while groupedData has no group the run is never in the writer and has
\* made no addRecords, addRecord or setValue call; once every record has been
\* read with no group formed, the run has failed with the no-data error.
C4_NoDataNeverWrites ==
    /\ Len(groupedData) = 0 =>
          /\ pc \notin WriterPositions
          /\ NoWriteCall
          /\ rows = <<>>
    /\ (Len(groupedData) = 0 /\ nRecords > 0 /\ Len(records) = nRecords
          /\ pc # "Aggregating") =>
          (pc = "Errored" /\ error = "NoDataForMonth")

C4_Witness ==
    /\ pc = "Errored"
    /\ error = "NoDataForMonth"
    /\ Len(records) = 2
    /\ records[1].date.k = "ts"
    /\ NoWriteCall

BulkFailed == [k |-> "bulkFailed"] \in log
BulkAdded == \E e \in log : e.k = "bulkAdded"

\* C5: after a failed bulk insert the per-row loop makes one addRecord call per
\* group it has passed, whatever happened to the groups before, and has passed
\* every group when the writer ends; each addRecord is followed by at most seven
\* setValue calls.  After a successful bulk insert, and without a bulk insert,
\* no addRecord or setValue call is made.
C5_FallbackAttemptsEveryGroup ==
    /\ BulkFailed =>
          /\ pc \in {"PerRow", "Done", "Errored"}
          /\ calls["addRecords"] = 1
          /\ calls["addRecord"] = gi - 1
          /\ calls["setValue"] <= 7 * calls["addRecord"]
          /\ calls["setValue"] >= 7 * successCount
          /\ pc # "PerRow" => gi = Len(groupedData) + 1
    /\ ~BulkFailed => (calls["addRecord"] = 0 /\ calls["setValue"] = 0)
    /\ BulkAdded => (pc = "Done" /\ ~BulkFailed)

C5_Witness ==
    /\ pc = "Done"
    /\ BulkFailed
    /\ Len(groupedData) = 2
    /\ [k |-> "addRecordError", key |-> groupedData[1].key] \in log
    /\ successCount = 1
    /\ calls["addRecord"] = 2

\* A complete row of group a: all seven values, as either path writes them
IsRowOf(row, a) == row = BulkRecord(a) \/ row = RowValues(a)

Written(a) == \E i \in 1..Len(rows) : IsRowOf(rows[i], a)
LoggedFailed(a) == [k |-> "addRecordError", key |-> a.key] \in log

\* C6: when the writer has returned, every group has a complete row in the
\* table or an error logged under its key, and the log holds the number of
\* rows added and the total: the bulk message with all groups, or the per-row
\* summary with successCount, which counts the groups with no error logged.
C6_EveryGroupWrittenOrLogged ==
    pc = "Done" =>
        /\ \A g \in 1..Len(groupedData) :
              Written(groupedData[g]) \/ LoggedFailed(groupedData[g])
        /\ \/ [k |-> "bulkAdded", n |-> Len(groupedData)] \in log
           \/ /\ [k |-> "added", n |-> successCount,
                  total |-> Len(groupedData)] \in log
              /\ successCount + Cardinality({g \in 1..Len(groupedData) :
                                               LoggedFailed(groupedData[g])})
                   = Len(groupedData)

C6_Witness ==
    /\ pc = "Done"
    /\ Len(groupedData) = 2
    /\ Written(groupedData[1])
    /\ ~Written(groupedData[2])
    /\ LoggedFailed(groupedData[2])
    /\ [k |-> "added", n |-> 1, total |-> 2] \in log

\* C7: a run that ends in success has a complete row of some group in the
\* table; a per-row pass that counted no success ends in the fatal
\* NoRecordWritten error, and one that counted at least one ends in success,
\* with a warning logged when it counted fewer than the groups.
C7_SuccessMeansARowWritten ==
    /\ pc = "Done" => \E g \in 1..Len(groupedData) : Written(groupedData[g])
    /\ \A e \in log :
          e.k = "added" =>
             /\ e.n = 0 => (pc = "Errored" /\ error = "NoRecordWritten")
             /\ e.n > 0 => pc = "Done"
             /\ (0 < e.n /\ e.n < e.total) =>
                   [k |-> "partialWarning", n |-> e.n, total |-> e.total] \in log

C7_Witness ==
    /\ pc = "Done"
    /\ successCount = 1
    /\ Len(groupedData) = 2
    /\ [k |-> "partialWarning", n |-> 1, total |-> 2] \in log

RunEnded == pc \in {"Done", "Errored"}

\* C8 (as stated): after a run, every row of the destination table is the
\* complete row of some group and no group has two rows.
C8_RowsOneToOneWithGroups ==
    RunEnded =>
        /\ \A i \in 1..Len(rows) :
              \E g \in 1..Len(groupedData) : IsRowOf(rows[i], groupedData[g])
        /\ \A g \in 1..Len(groupedData) :
              Cardinality({i \in 1..Len(rows) : IsRowOf(rows[i], groupedData[g])}) <= 1

IsComplete(row) == \A c \in 1..7 : row[c] # Unset

\* C9 (as stated): every complete row of the table holds, for its group, the
\* five sums rounded to 2 decimals, whichever path wrote it.
C9_PersistedSumsAreRounded ==
    \A i \in 1..Len(rows) :
        IsComplete(rows[i]) =>
            \E g \in 1..Len(groupedData) : rows[i] = RowValues(groupedData[g])

\* A record on which a read throws or whose date does not parse
Failing(r) ==
    \/ r.date.k \in {"throws", "invalid"}
    \/ r.cat.k = "throws"
    \/ \E j \in 1..5 : r.nums[j].k = "throws"

\* What record r adds to field f of the group of key K when it is the only record
Alone(r, K, f) ==
    LET gd == Accumulate(<<>>, r, month)
    IN IF HasKey(gd, K) THEN Group(gd, K)[f] ELSE 0

AccFields == {"count"} \cup Range(NumFields)

\* C10: the loop is never left before the last record, and in the loop, up to
\* its end, every field of every group is the sum of what each record read so
\* far contributes when handled alone, so that a failing record changes no
\* other record's share.
C10_FailingRecordIsIsolated ==
    /\ (nRecords > 0 /\ Len(records) < nRecords) => pc = "Aggregating"
    /\ pc = "Aggregating" =>
       \A K \in AllLabels \cup {"[object Object]"} :
          /\ HasKey(groupedData, K) <=>
                \E i \in 1..Len(records) : Alone(records[i], K, "count") > 0
          /\ HasKey(groupedData, K) =>
                \A f \in AccFields :
                    Group(groupedData, K)[f] =
                        SumSeq([i \in 1..Len(records) |-> Alone(records[i], K, f)])

C10_Witness ==
    /\ Len(records) = 2
    /\ Failing(records[1])
    /\ records[1].cat.k = "throws"
    /\ \E j \in 1..5 : records[2].nums[j].k = "throws"
    /\ Len(groupedData) = 1
    /\ groupedData[1].count = 1
    /\ pc = "Done"

\* C11 (as stated): the normalizer returns 0 for every value that is not
\* convertible to a finite number, and every sum of every group is a finite
\* number.
C11_SumsAreFinite ==
    /\ \A i \in 1..Len(records) : \A j \in 1..5 :
          records[i].nums[j].k \notin {"num", "unread"} =>
              safeGetNumberValue(records[i].nums[j]) = 0
    /\ \A g \in 1..Len(groupedData) : \A j \in 1..5 :
          IsFiniteNumber(groupedData[g][NumFields[j]])

\* The step of the run a position belongs to, numbered in the order Idle,
\* ResolvingSourceTable, CreatingReport, DefiningFields, Aggregating, Writing,
\* Done; Errored is 7
StepOf(p) ==
    CASE p = "Idle" -> 0
      [] p = "ResolvingSourceTable" -> 1
      [] p \in {"CreatingReport", "GettingNewTable"} -> 2
      [] p = "DefiningFields" -> 3
      [] p \in {"SourceFieldMeta", "SourceGetFields", "SourceRecordIds",
                "Aggregating"} -> 4
      [] p \in {"TargetFieldMeta", "TargetGetFields", "BulkInsert",
                "PerRow"} -> 5
      [] p = "Done" -> 6
      [] p = "Errored" -> 7

StepTaken ==
    /\ pc \notin {"Done", "Errored"}
    /\ \/ StepOf(pc') = StepOf(pc) /\ error' = ""
       \/ StepOf(pc') = StepOf(pc) + 1 /\ error' = ""
       \/ pc' = "Errored" /\ error' # ""

\* C12: a run goes through the steps resolve source table, create report
\* table, define fields, aggregate, write, done in this order, one step
\* starting only when the previous one has completed; a failure moves the run
\* to Errored, after Done or Errored nothing more happens, and every run ends
\* in Done or in Errored.
C12_StepsInOrder ==
    /\ [][StepTaken]_vars
    /\ [](error # "" <=> pc = "Errored")
    /\ <>(pc \in {"Done", "Errored"})

C12_Witness ==
    /\ pc = "Done"
    /\ tableCreated
    /\ newFields = TARGET_FIELD_NAMES
    /\ Len(groupedData) > 0
    /\ Len(rows) > 0

IsPrefix(s, t) == Len(s) <= Len(t) /\ SubSeq(t, 1, Len(s)) = s

\* C13: once the destination table is created, no step of the run removes the
\* table, one of its fields or one of its rows, and a step that fails leaves
\* the table, its fields and its rows exactly as they were.
C13_NoRollback ==
    [][tableCreated =>
          /\ tableCreated'
          /\ IsPrefix(newFields, newFields')
          /\ IsPrefix(rows, rows')
          /\ pc' = "Errored" => newFields' = newFields /\ rows' = rows]_vars

\* A run that failed in writing after it had stored a row
C13_Witness ==
    /\ pc = "Errored"
    /\ error = "NoRecordWritten"
    /\ tableCreated
    /\ newFields = TARGET_FIELD_NAMES
    /\ Len(rows) > 0

\* The required names that are not in the field list returned last
NotLocated(names) == Range(names) \ Range(fields)

\* The error names exactly the required names that were not located
NamesTheMissing(names) ==
    /\ Range(missingFields) = NotLocated(names)
    /\ Len(missingFields) = Cardinality(NotLocated(names))

\* C14 (as stated): for any field list, the empty one included, field
\* resolution yields the seven ids or the run fails with an error that names
\* every required display-name that was not located and no other.
C14_MissingNamesAnyList ==
    /\ pc = "SourceGetFields" => NotLocated(SOURCE_FIELD_NAMES) = {}
    /\ pc = "TargetGetFields" => NotLocated(TARGET_FIELD_NAMES) = {}
    /\ error \in {"NoSourceFields", "MissingSourceFields"} =>
          NotLocated(SOURCE_FIELD_NAMES) # {} /\ NamesTheMissing(SOURCE_FIELD_NAMES)
    /\ error \in {"NoTargetFields", "MissingTargetFields"} =>
          NotLocated(TARGET_FIELD_NAMES) # {} /\ NamesTheMissing(TARGET_FIELD_NAMES)

\* C14 (amended): for a field list that is not empty, field resolution yields
\* the seven ids or the run fails with an error that names every required
\* display-name that was not located and no other; for an empty field list the
\* run fails with an error that names no display-name.
C14_MissingNamesNonEmptyList ==
    /\ pc = "SourceGetFields" => NotLocated(SOURCE_FIELD_NAMES) = {}
    /\ pc = "TargetGetFields" => NotLocated(TARGET_FIELD_NAMES) = {}
    /\ error = "MissingSourceFields" =>
          /\ fields # <<>>
          /\ NotLocated(SOURCE_FIELD_NAMES) # {}
          /\ NamesTheMissing(SOURCE_FIELD_NAMES)
    /\ error = "MissingTargetFields" =>
          /\ fields # <<>>
          /\ NotLocated(TARGET_FIELD_NAMES) # {}
          /\ NamesTheMissing(TARGET_FIELD_NAMES)
    /\ error \in {"NoSourceFields", "NoTargetFields"} =>
          fields = <<>> /\ missingFields = <<>>

\* The destination table lists five of its seven fields
C14_Witness ==
    /\ error = "MissingTargetFields"
    /\ Len(fields) = 5
    /\ Len(missingFields) = 2

\* C15: two calls of generate with the same source table and month create two
\* distinct destination tables: a call that has obtained the source table
\* calls addTable exactly once, the table it works on is the one it has
\* created, and it is none of the tables the calls before it have created.
C15_RunsCreateDistinctTables ==
    /\ calls["addTable"] <= 1
    /\ pc \notin {"Idle", "ResolvingSourceTable", "CreatingReport", "Errored"} =>
          calls["addTable"] = 1
    /\ pc = "Errored" /\ calls["addTable"] = 0 =>
          error \in {"EmptySourceTableId", "MonthOutOfRange", "SourceTableNotFound",
                     "HostError"}
    /\ tableCreated => tableId \notin earlierTables \cup {0}
    /\ newTable # 0 => newTable = tableId /\ newTable \notin earlierTables
    /\ (Len(newFields) > 0 \/ Len(rows) > 0 \/ calls["getFieldMetaList"] > 1) =>
          newTable # 0
    /\ tablesCreated = Cardinality(earlierTables) + (IF tableCreated THEN 1 ELSE 0)

\* The second call has ended well after the first one had created a table
C15_Witness ==
    /\ run = 2
    /\ pc = "Done"
    /\ earlierTables = {1}
    /\ tableId = 2
    /\ tablesCreated = 2
    /\ Len(rows) > 0

\* The index of the first record read that was added to the group of this key
FirstSeenAt(key) ==
    LET Seen == {i \in 1..Len(records) :
                    Contributes(records[i], month) /\ StringOf(records[i].cat) = key}
    IN CHOOSE i \in Seen : \A j \in Seen : i <= j

\* C16 (as stated): the groups reach the writer, in the bulk record list and in
\* the per-row loop, in the order in which their labels were first seen among
\* the records, labels that look like integers included.
C16_GroupsInFirstSeenOrder ==
    LET emitted == BulkRecords(groupedData) IN
    \A i, j \in 1..Len(groupedData) :
        i < j =>
            /\ FirstSeenAt(groupedData[i].key) < FirstSeenAt(groupedData[j].key)
            /\ FirstSeenAt(emitted[i][1].text) < FirstSeenAt(emitted[j][1].text)

\* The records read so far that were added to a group
Grouped == {i \in 1..Len(records) : Contributes(records[i], month)}

\* C17 (as stated): the key of a record's group is the label of its category
\* value, that label is the Project value written for the group, and two
\* records are in the same group exactly if their labels are equal, whether
\* the host returns the label as a string or as an option object.
C17_KeyIsTheLabel ==
    /\ \A i \in Grouped :
          /\ StringOf(records[i].cat) = records[i].cat.text
          /\ \E g \in 1..Len(groupedData) :
                /\ groupedData[g].key = records[i].cat.text
                /\ BulkRecord(groupedData[g])[1] = TextCell(records[i].cat.text)
                /\ RowValues(groupedData[g])[1] = TextCell(records[i].cat.text)
    /\ \A i, j \in Grouped :
          StringOf(records[i].cat) = StringOf(records[j].cat)
              <=> records[i].cat.text = records[j].cat.text

\* The record holds no out-date, an out-date that does not parse, an out-date
\* of another month, or an out-date of month m and no category or an empty one
Skipped(r, m) ==
    \/ r.date.k \in {"null", "invalid"}
    \/ r.date.k = "ts" /\ GetMonth(r.date) # m
    \/ /\ InRequestedMonth(r, m)
       /\ r.cat.k = "null" \/ (r.cat.k = "str" /\ r.cat.text = "")

\* C18: reading a record with no out-date, with an out-date that does not
\* parse, with an out-date of another month, or with a matching out-date and
\* an absent or empty category leaves every group as it was (no key added, no
\* count or sum changed) and does not fail the run.
C18_SkippedRecordChangesNothing ==
    [][(Len(records') = Len(records) + 1 /\ Skipped(records'[Len(records')], month)) =>
          /\ groupedData' = groupedData
          /\ pc' = "Aggregating"
          /\ error' = ""]_vars

\* A record with an empty category was read after one that made a group
C18_Witness ==
    /\ Len(records) = 2
    /\ Contributes(records[1], month)
    /\ InRequestedMonth(records[2], month)
    /\ records[2].cat = Str("")
    /\ Len(groupedData) = 1
    /\ groupedData[1].count = 1
    /\ pc = "Aggregating"

OutputFieldOrder ==
    <<"PROJECT", "PERSON_COUNT", "SHARES", "PREPARATION_FEE", "REWARD_DEDUCTION",
      "CANCEL_FEE", "URGENT_FEE">>

\* C19: the seven output fields are added in the order Project, Person Count,
\* Shares, Preparation Fee, Reward Deduction, Cancel Fee, Urgent Fee;
\* aggregation and the writer, and with it the resolution of the destination
\* field ids, start only after seven successful addField calls; a failing
\* addField call fails the run with neither aggregation nor the writer started.
C19_FieldsDefinedFirstInOrder ==
    /\ IsPrefix(newFields, OutputFieldOrder)
    /\ calls["addField"] \in {Len(newFields), Len(newFields) + 1}
    /\ calls["addField"] <= 7
    /\ (StepOf(pc) \in {4, 5, 6} \/ calls["getFieldMetaList"] > 0) =>
          newFields = OutputFieldOrder /\ calls["addField"] = 7
    /\ error = "CreateFieldsFailed" =>
          /\ calls["addField"] = Len(newFields) + 1
          /\ calls["getFieldMetaList"] = 0
          /\ calls["getField"] = 0
          /\ calls["getRecordIdList"] = 0
          /\ calls["getValue"] = 0
          /\ records = <<>> /\ groupedData = <<>>
          /\ NoWriteCall /\ rows = <<>>

\* The fifth addField call failed
C19_Witness ==
    /\ error = "CreateFieldsFailed"
    /\ newFields = SubSeq(OutputFieldOrder, 1, 4)
    /\ calls["addField"] = 5

\* x rounded at 2 decimals, a half going up
HalfUp(x) == 10 * ((x + 5) \div 10)

\* C20 (as stated): every sum in the table is the group's sum rounded half-up
\* at 2 decimals (12.345 becomes 12.35), and no value in the table is negative
\* zero, also for a sum strictly between -0.005 and 0.
C20_HalfUpAndNoNegativeZero ==
    \A i \in 1..Len(rows) : \A c \in 3..7 :
        rows[i][c] # Unset =>
            /\ ~rows[i][c].negZero
            /\ \E g \in 1..Len(groupedData) :
                  LET sum == groupedData[g][NumFields[c - 2]] IN
                  /\ rows[i][1] = TextCell(groupedData[g].key)
                  /\ IsFiniteNumber(sum) => rows[i][c].n = HalfUp(sum)

ReadKinds == {"getFieldMetaList", "getField", "getRecordIdList", "getValue"}
ModifyingKinds == {"addField", "addRecord", "addRecords", "setValue"}

\* C21: the only calls a run makes on the source table are reads (field
\* metadata, field handles, record id list, field values), and every
\* addField, addRecord, addRecords and setValue call of the run is made on
\* the destination table this run has created.
C21_SourceIsOnlyRead ==
    /\ \A t \in targets :
          /\ t.table.table = "source" => t.kind \in ReadKinds
          /\ t.kind \in ModifyingKinds =>
                /\ t.table = [table |-> "new", id |-> tableId]
                /\ tableCreated
                /\ tableId \notin earlierTables \cup {0}
    /\ \A k \in ModifyingKinds \cup ReadKinds :
          calls[k] > 0 <=> \E t \in targets : t.kind = k

\* The second call has read the source table and filled its own table
C21_Witness ==
    /\ run = 2
    /\ pc = "Done"
    /\ tableId = 2
    /\ [kind |-> "getValue", table |-> SourceTableRef] \in targets
    /\ [kind |-> "addField", table |-> [table |-> "new", id |-> 2]] \in targets
    /\ [kind |-> "setValue", table |-> [table |-> "new", id |-> 2]] \in targets
    /\ Len(rows) > 0

\* C22: from the form at most one call of generate is in flight: loading is
\* true from before generate is called until it has settled, the button takes
\* no click while loading is true, loading is false again once generate has
\* settled, with success or with failure, and the form does not stay blocked.
C22_OneRunInFlight ==
    /\ [](inFlight <= 1)
    /\ [](loading <=> inFlight = 1)
    /\ [](pc \notin {"Idle", "Done", "Errored"} => loading /\ shownLoading)
    /\ [][inFlight' > inFlight =>
             ~loading /\ ~shownLoading /\ loading' /\ shownLoading']_vars
    /\ [][inFlight' < inFlight => pc \in {"Done", "Errored"} /\ ~loading']_vars
    /\ (shownLoading ~> ~shownLoading)

\* A second call is in flight after the first one has created its table
C22_Witness ==
    /\ run = 2
    /\ earlierTables = {1}
    /\ inFlight = 1
    /\ loading
    /\ pc = "PerRow"

\* The record holds a date the month filter gets to see
DateSeen(r) == r.date.k = "ts" /\ r.date.ts # 0

\* The calendar month of a date, January being 1
CalendarMonth(d) == d.ts - 12 * (YearOf(d) - 1970) + 1

\* C23: the month filter compares the calendar month of the out-date with the
\* requested month and nothing else: the records that pass it are those dated
\* in that month of any year, such a record with a category is in the groups
\* whatever its year, and the table is named with the year of the run.
C23_FilterIgnoresYear ==
    /\ matchedRecordCount =
          Cardinality({i \in 1..Len(records) :
                          DateSeen(records[i]) /\ CalendarMonth(records[i].date) = month})
    /\ \A i \in 1..Len(records) :
          (/\ DateSeen(records[i])
           /\ CalendarMonth(records[i].date) = month
           /\ HasLabel(records[i])) =>
              HasKey(groupedData, StringOf(records[i].cat))
    /\ tableCreated => newTableName = [year |-> CurrentYear, month |-> month]

\* Two records of the same month of two years make one group in a table named
\* with one of the years
C23_Witness ==
    /\ Len(records) = 2
    /\ DateSeen(records[1]) /\ DateSeen(records[2])
    /\ YearOf(records[1].date) # YearOf(records[2].date)
    /\ YearOf(records[1].date) # newTableName.year
    /\ CalendarMonth(records[1].date) = month
    /\ CalendarMonth(records[2].date) = month
    /\ Len(groupedData) = 1
    /\ groupedData[1].count = 2
    /\ pc = "Done"

====
